---- MODULE Spec2Model ----
(***************************************************************************)
(* ABCU Advising Assistant: the course table of the three program          *)
(* variants (enhancement1: unordered_map backed, enhancement2: manual      *)
(* chained hash table loaded from CSV, enhancement3: manual chained hash   *)
(* table loaded from SQLite).                                              *)
(*                                                                         *)
(* A string is a sequence of character codes (0..255), so that toUpper,    *)
(* hash, the comma splitting of parseCourse and the ordinal comparison of  *)
(* sort are computed on characters as the code computes them.              *)
(***************************************************************************)
EXTENDS Integers, Sequences, FiniteSets, TLC

(***************************************************************************)
(* Bounds of the model.                                                    *)
(***************************************************************************)
\* longest input (CSV lines of a file, rows of a query result) of one load
MaxUnits == 2
\* number of Node addresses the heap of the model has
MaxNodes == 3
\* database handles (connections, statements) a run may leave open
MaxHandles == 1
\* longest key handed to hash taken alone
MaxKeyLen == 7
\* longest line handed to parseCourse taken alone
MaxLineLen == 6
\* number of lines on the standard input of a run of main
MaxInput == 3

(***************************************************************************)
(* Program constants.                                                      *)
(***************************************************************************)
HASH_TABLE_SIZE == 17
\* the field delimiter ',' of getline(ss, field, ',')
Comma == 44
\* nullptr
NULL == 0

(***************************************************************************)
(* Strings.                                                                *)
(***************************************************************************)
\* ::toupper on one character in the "C" locale
toupperChar(ch) == IF ch >= 97 /\ ch =< 122 THEN ch - 32 ELSE ch

\* HashTable::toUpper: transform(..., ::toupper)
toUpper(str) == [i \in 1..Len(str) |-> toupperChar(str[i])]

\* std::string operator< : ordinal comparison, a proper prefix is smaller
RECURSIVE StrLess(_, _)
StrLess(a, b) ==
    IF b = <<>> THEN FALSE
    ELSE IF a = <<>> THEN TRUE
    ELSE IF Head(a) # Head(b) THEN Head(a) < Head(b)
    ELSE StrLess(Tail(a), Tail(b))

(***************************************************************************)
(* HashTable::hash.  unsigned int arithmetic is modulo 2^32; the value is  *)
(* kept as two 16-bit halves <<hi, lo>> so that no intermediate exceeds    *)
(* the integers of the checker.  ch is a plain char converted to unsigned  *)
(* int: where the build makes char signed, a code above 127 is a negative  *)
(* value and converts to 2^32 - 256 + code; where char is unsigned it      *)
(* converts to the code itself.                                            *)
(***************************************************************************)
Half == 256 * 256

\* (unsigned int) ch
charToUnsigned(signedChar, ch) ==
    IF signedChar /\ ch > 127 THEN <<Half - 1, Half - 256 + ch>> ELSE <<0, ch>>

\* hashVal * 31 + ch, modulo 2^32
hashStep(signedChar, hv, ch) ==
    LET u  == charToUnsigned(signedChar, ch)
        lo == hv[2] * 31 + u[2]
        hi == hv[1] * 31 + u[1] + (lo \div Half)
    IN  <<hi % Half, lo % Half>>

\* for (char ch : key) hashVal = hashVal * 31 + ch
RECURSIVE hashFold(_, _, _)
hashFold(signedChar, hv, key) ==
    IF key = <<>> THEN hv
    ELSE hashFold(signedChar, hashStep(signedChar, hv, Head(key)), Tail(key))

\* HashTable::hash on a build whose plain char is signed or not
hashOn(signedChar, key) ==
    LET hv == hashFold(signedChar, <<0, 0>>, key)
    IN  ((hv[1] % HASH_TABLE_SIZE) * (Half % HASH_TABLE_SIZE)
         + (hv[2] % HASH_TABLE_SIZE)) % HASH_TABLE_SIZE

\* HashTable::hash for the keys of the table of the model: they are ASCII,
\* where every build computes the same value
hash(key) == hashOn(TRUE, key)

(***************************************************************************)
(* Course.                                                                 *)
(***************************************************************************)
\* Course::Course(): the default constructor, every member empty
DefaultCourse == [code |-> <<>>, title |-> <<>>, prerequisites |-> <<>>]

\* a validate that tests the code only
validate_CodeOnly(c) == IF c.code = <<>> THEN "throw" ELSE "ok"

\* Course::validate
validate(c) == IF c.code = <<>> \/ c.title = <<>> THEN "throw" ELSE "ok"

\* the outcome of an expression that yields a Course or throws
Returned(c) == [kind |-> "ok", course |-> c, what |-> ""]
Thrown(msg) == [kind |-> "throw", course |-> DefaultCourse, what |-> msg]

\* Course::Course(c, t, p)
Course(c, t, p) ==
    LET obj == [code |-> c, title |-> t, prerequisites |-> p]
    IN  IF validate(obj) = "throw"
        THEN Thrown("Invalid Course Data: Code or Title is missing.")
        ELSE Returned(obj)

(***************************************************************************)
(* CSV parsing (enhancement1, enhancement2).                               *)
(***************************************************************************)
\* position of the first delimiter of s, 0 when there is none
FirstComma(s) ==
    IF \E i \in 1..Len(s) : s[i] = Comma
    THEN CHOOSE i \in 1..Len(s) :
            s[i] = Comma /\ \A j \in 1..(i - 1) : s[j] # Comma
    ELSE 0

\* getline(ss, field, ',') on a stream whose unread input is s: fails when
\* nothing can be extracted, otherwise reads up to and consumes the delimiter
getline(s) ==
    IF s = <<>> THEN [ok |-> FALSE, str |-> <<>>, rest |-> <<>>]
    ELSE LET i == FirstComma(s)
         IN  IF i = 0 THEN [ok |-> TRUE, str |-> s, rest |-> <<>>]
             ELSE [ok |-> TRUE, str |-> SubSeq(s, 1, i - 1),
                   rest |-> SubSeq(s, i + 1, Len(s))]

\* a prerequisite loop that keeps the empty fields
RECURSIVE readPrereqs_KeepEmpty(_)
readPrereqs_KeepEmpty(s) ==
    LET g == getline(s)
    IN  IF ~g.ok THEN <<>>
        ELSE <<g.str>> \o readPrereqs_KeepEmpty(g.rest)

\* while (getline(ss, prereq, ',')) if (!prereq.empty()) push_back(prereq)
RECURSIVE readPrereqs(_)
readPrereqs(s) ==
    LET g == getline(s)
    IN  IF ~g.ok THEN <<>>
        ELSE IF g.str = <<>> THEN readPrereqs(g.rest)
        ELSE <<g.str>> \o readPrereqs(g.rest)

\* HashTable::parseCourse
parseCourse(line) ==
    LET g1 == getline(line)
        g2 == getline(g1.rest)
    IN  IF ~g1.ok \/ ~g2.ok THEN Thrown("Malformed line in file.")
        ELSE Course(g1.str, g2.str, readPrereqs(g2.rest))

(***************************************************************************)
(* Inputs of the model.  Text is written as character codes:               *)
(*   65 'A'  66 'B'  82 'R'  84 'T'  85 'U'  97 'a'  44 ','                *)
(* "A" and "R" share bucket 14 (65 % 17 = 82 % 17), "a" is "A" in another  *)
(* case, "B" is in bucket 15.                                              *)
(***************************************************************************)
\* lines of a CSV file (enhancement1, enhancement2)
Lines ==
    { <<65, 44, 84>>,                \* "A,T"
      <<97, 44, 85>>,                \* "a,U"
      <<82, 44, 84, 44, 44, 65>>,    \* "R,T,,A"
      <<65>>,                        \* "A"    no title field
      <<44, 84>> }                   \* ",T"   empty code

\* NULL as the result of sqlite3_column_text
SqlNull == <<-1>>

\* rows of the courses table (enhancement3): code, title, prerequisites
Rows ==
    { <<<<65>>, <<84>>, <<>>>>,          \* 'A', 'T', ''
      <<<<97>>, <<85>>, <<>>>>,          \* 'a', 'U', ''
      <<<<82>>, <<84>>, <<65>>>>,        \* 'R', 'T', 'A'
      <<<<66>>, <<85>>, <<44, 65>>>>,    \* 'B', 'U', ',A'
      <<<<>>, <<84>>, <<>>>>,            \* '',  'T', ''
      <<<<65>>, <<84>>, SqlNull>> }      \* 'A', 'T', NULL

\* course codes asked of getCourse
Codes == { <<65>>, <<97>>, <<82>>, <<66>>, <<>> }

\* Course objects handed to insert directly
Courses ==
    { [code |-> <<65>>, title |-> <<84>>, prerequisites |-> <<>>],
      [code |-> <<97>>, title |-> <<85>>, prerequisites |-> <<>>],
      [code |-> <<82>>, title |-> <<84>>, prerequisites |-> <<<<65>>>>] }

\* every sequence over S of length at most n
SeqsUpTo(S, n) == UNION { [1..k -> S] : k \in 0..n }

\* arguments of the Course constructor taken alone: codes are Codes, titles
\* are "", "T", "U" and " ", prerequisite lists hold "" and "A"
Titles == { <<>>, <<84>>, <<85>>, <<32>> }
PrereqLists == SeqsUpTo({ <<>>, <<65>> }, MaxUnits)

\* characters of the keys handed to hash taken alone: 'A', 'Z' and the
\* character 200, which toUpper leaves as they are
KeyChars == { 65, 90, 200 }
Keys == SeqsUpTo(KeyChars, MaxKeyLen)

\* the files and the query results a load may read
Files == SeqsUpTo(Lines, MaxUnits)
Results == SeqsUpTo(Rows, MaxUnits)

\* the shorter inputs of the loads of SpecApi
ApiFiles == SeqsUpTo(Lines, MaxUnits - 1)
ApiResults == SeqsUpTo(Rows, MaxUnits - 1)

(***************************************************************************)
(* The heap of Node objects.  A Node address is a number in 1..MaxNodes.   *)
(***************************************************************************)
NodeIds == 1..MaxNodes
Buckets == 0..(HASH_TABLE_SIZE - 1)

\* storage that holds no Node: never handed out by operator new, or released
Unallocated == [course |-> DefaultCourse, next |-> NULL, state |-> "free"]

\* Node::Node(Course c) : course(c), next(nullptr)
Node(c) == [course |-> c, next |-> NULL, state |-> "live"]

\* operator new: an address that is not in use
newNode(heap) ==
    CHOOSE n \in NodeIds :
        /\ heap[n].state # "live"
        /\ \A m \in NodeIds : heap[m].state # "live" => n =< m

\* delete curr: the storage is released; deleting storage that is not a
\* live Node is recorded as a double release
deleteNode(heap, curr) ==
    [heap EXCEPT ![curr] =
        [course |-> DefaultCourse, next |-> NULL,
         state |-> IF heap[curr].state = "live" THEN "free" ELSE "doublefree"]]

\* number of addresses operator new can still hand out
FreeNodes(heap) == Cardinality({n \in NodeIds : heap[n].state # "live"})

(***************************************************************************)
(* HashTable of enhancement2 and enhancement3: st is the record of the     *)
(* members table, courseOrder and of the heap.                             *)
(***************************************************************************)
\* while (curr->next != nullptr) curr = curr->next
RECURSIVE lastOfChain(_, _)
lastOfChain(heap, curr) ==
    IF heap[curr].next = NULL THEN curr ELSE lastOfChain(heap, heap[curr].next)

\* insert that replaces the head of the bucket instead of appending
insert_DropChain(st, course) ==
    LET key == toUpper(course.code)
        nn  == newNode(st.heap)
    IN  [table       |-> [st.table EXCEPT ![hash(key)] = nn],
         heap        |-> [st.heap EXCEPT ![nn] = Node(course)],
         courseOrder |-> Append(st.courseOrder, key)]

\* insert that links the new Node in front of the chain
insert_AtHead(st, course) ==
    LET key == toUpper(course.code)
        nn  == newNode(st.heap)
    IN  [table       |-> [st.table EXCEPT ![hash(key)] = nn],
         heap        |-> [st.heap EXCEPT
                            ![nn] = [Node(course) EXCEPT !.next = st.table[hash(key)]]],
         courseOrder |-> Append(st.courseOrder, key)]

\* insert that picks the bucket from the code as written, not upper-cased
insert_RawHash(st, course) ==
    LET key     == toUpper(course.code)
        index   == hash(course.code)
        nn      == newNode(st.heap)
        heap1   == [st.heap EXCEPT ![nn] = Node(course)]
    IN  IF st.table[index] = NULL
        THEN [table       |-> [st.table EXCEPT ![index] = nn],
              heap        |-> heap1,
              courseOrder |-> Append(st.courseOrder, key)]
        ELSE [table       |-> st.table,
              heap        |-> [heap1 EXCEPT
                                 ![lastOfChain(heap1, st.table[index])].next = nn],
              courseOrder |-> Append(st.courseOrder, key)]

\* insert that overwrites the Course of the head of the bucket when the head
\* has the same canonical code
insert_Overwrite(st, course) ==
    LET key     == toUpper(course.code)
        index   == hash(key)
        nn      == newNode(st.heap)
        heap1   == [st.heap EXCEPT ![nn] = Node(course)]
        head    == st.table[index]
    IN  IF head = NULL
        THEN [table       |-> [st.table EXCEPT ![index] = nn],
              heap        |-> heap1,
              courseOrder |-> Append(st.courseOrder, key)]
        ELSE IF toUpper(st.heap[head].course.code) = key
        THEN [table       |-> st.table,
              heap        |-> [st.heap EXCEPT ![head].course = course],
              courseOrder |-> st.courseOrder]
        ELSE [table       |-> st.table,
              heap        |-> [heap1 EXCEPT
                                 ![lastOfChain(heap1, st.table[index])].next = nn],
              courseOrder |-> Append(st.courseOrder, key)]

\* HashTable::insert
insert(st, course) ==
    LET key     == toUpper(course.code)
        index   == hash(key)
        nn      == newNode(st.heap)
        heap1   == [st.heap EXCEPT ![nn] = Node(course)]
    IN  IF st.table[index] = NULL
        THEN [table       |-> [st.table EXCEPT ![index] = nn],
              heap        |-> heap1,
              courseOrder |-> Append(st.courseOrder, key)]
        ELSE [table       |-> st.table,
              heap        |-> [heap1 EXCEPT
                                 ![lastOfChain(heap1, st.table[index])].next = nn],
              courseOrder |-> Append(st.courseOrder, key)]

\* while (curr != nullptr) { next = curr->next; delete curr; curr = next; }
RECURSIVE deleteChain(_, _)
deleteChain(heap, curr) ==
    IF curr = NULL THEN heap
    ELSE deleteChain(deleteNode(heap, curr), heap[curr].next)

\* a clearTable loop that deletes the chains and forgets table[i] = nullptr
RECURSIVE clearFrom_KeepPointers(_, _)
clearFrom_KeepPointers(st, i) ==
    IF i >= HASH_TABLE_SIZE THEN st
    ELSE clearFrom_KeepPointers(
             [st EXCEPT !.heap = deleteChain(st.heap, st.table[i])], i + 1)

\* the loop of HashTable::clearTable from bucket i on
RECURSIVE clearFrom(_, _)
clearFrom(st, i) ==
    IF i >= HASH_TABLE_SIZE THEN st
    ELSE clearFrom([st EXCEPT !.heap = deleteChain(st.heap, st.table[i]),
                              !.table[i] = NULL], i + 1)

\* HashTable::clearTable (enhancement3)
clearTable(st) == clearFrom(st, 0)

\* the loop of HashTable::~HashTable from bucket i on: the buckets keep
\* their pointers
RECURSIVE destroyFrom(_, _)
destroyFrom(st, i) ==
    IF i >= HASH_TABLE_SIZE THEN st
    ELSE destroyFrom([st EXCEPT !.heap = deleteChain(st.heap, st.table[i])], i + 1)

\* HashTable::~HashTable (enhancement3)
destructor(st) == destroyFrom(st, 0)

\* a reset that forgets courseOrder.clear()
resetTable2_KeepOrder(st) ==
    [table |-> [i \in Buckets |-> NULL], heap |-> st.heap, courseOrder |-> st.courseOrder]

\* the reset of loadData in enhancement2: the buckets are overwritten, no
\* Node is deleted
resetTable2(st) ==
    [table |-> [i \in Buckets |-> NULL], heap |-> st.heap, courseOrder |-> <<>>]

\* a reset that clears courseOrder and leaves the chains
resetTable3_KeepChains(st) == [st EXCEPT !.courseOrder = <<>>]

\* the reset of loadData in enhancement3
resetTable3(st) == clearTable([st EXCEPT !.courseOrder = <<>>])

\* a scan that takes the head of the bucket for the course asked for
findInChain_NoCompare(heap, curr, key) ==
    IF curr = NULL THEN Thrown("Course not found.") ELSE Returned(heap[curr].course)

\* the scan of getCourse along one chain
RECURSIVE findInChain(_, _, _)
findInChain(heap, curr, key) ==
    IF curr = NULL THEN Thrown("Course not found.")
    ELSE IF toUpper(heap[curr].course.code) = key THEN Returned(heap[curr].course)
    ELSE findInChain(heap, heap[curr].next, key)

\* getCourse without the dataLoaded test
getCourseChained_NoStateCheck(st, loaded, code) ==
    LET key == toUpper(code)
    IN  findInChain(st.heap, st.table[hash(key)], key)

\* getCourse that hashes and compares the code as it was typed
getCourseChained_NoUpper(st, loaded, code) ==
    IF ~loaded THEN Thrown("No data loaded.")
    ELSE findInChain(st.heap, st.table[hash(code)], code)

\* getCourse that answers "Course not found." on a table that is not loaded
getCourseChained_OneMessage(st, loaded, code) ==
    LET key == toUpper(code)
    IN  IF ~loaded THEN Thrown("Course not found.")
        ELSE findInChain(st.heap, st.table[hash(key)], key)

\* HashTable::getCourse (enhancement2, enhancement3)
getCourseChained(st, loaded, code) ==
    IF ~loaded THEN Thrown("No data loaded.")
    ELSE LET key == toUpper(code)
         IN  findInChain(st.heap, st.table[hash(key)], key)

(***************************************************************************)
(* HashTable of enhancement1: courseMap is a function whose domain is the  *)
(* set of keys of the unordered_map.                                       *)
(***************************************************************************)
\* courseMap[upperCode] = course
mapAssign(m, key, course) ==
    [k \in (DOMAIN m) \cup {key} |-> IF k = key THEN course ELSE m[k]]

\* HashTable::getCourse (enhancement1)
getCourseMap(m, loaded, code) ==
    IF ~loaded THEN Thrown("No data loaded.")
    ELSE LET upperCode == toUpper(code)
         IN  IF upperCode \notin DOMAIN m THEN Thrown("Course not found.")
             ELSE Returned(m[upperCode])

(***************************************************************************)
(* sort(courseOrder.begin(), courseOrder.end())                            *)
(***************************************************************************)
\* s with x put before the first element that is greater than x
RECURSIVE insertSorted(_, _)
insertSorted(s, x) ==
    IF s = <<>> THEN <<x>>
    ELSE IF StrLess(x, Head(s)) THEN <<x>> \o s
    ELSE <<Head(s)>> \o insertSorted(Tail(s), x)

RECURSIVE sort(_)
sort(s) ==
    IF s = <<>> THEN <<>>
    ELSE insertSorted(sort(SubSeq(s, 1, Len(s) - 1)), s[Len(s)])

(***************************************************************************)
(* loadData.                                                               *)
(***************************************************************************)
\* the exception a load loop raises, or none
NoThrow == [thrown |-> FALSE, what |-> "", line |-> 0]
Throw(msg, lineNum) == [thrown |-> TRUE, what |-> msg, line |-> lineNum]

\* enhancement1: while (getline(file, line)) { lineNum++; try { parseCourse;
\* courseMap[upperCode] = course; courseOrder.push_back } catch { throw } }
RECURSIVE loadLoop1(_, _, _)
loadLoop1(st, lines, lineNum) ==
    IF lines = <<>> THEN [st |-> st, exc |-> NoThrow]
    ELSE LET p == parseCourse(Head(lines))
             upperCode == toUpper(p.course.code)
         IN  IF p.kind = "throw"
             THEN [st |-> st, exc |-> Throw(p.what, lineNum + 1)]
             ELSE loadLoop1([courseMap   |-> mapAssign(st.courseMap, upperCode, p.course),
                             courseOrder |-> Append(st.courseOrder, upperCode)],
                            Tail(lines), lineNum + 1)

\* a line loop that counts the lines from 0
RECURSIVE loadLoop2_ZeroBased(_, _, _)
loadLoop2_ZeroBased(st, lines, lineNum) ==
    IF lines = <<>> THEN [st |-> st, exc |-> NoThrow]
    ELSE LET p == parseCourse(Head(lines))
         IN  IF p.kind = "throw"
             THEN [st |-> st, exc |-> Throw(p.what, lineNum)]
             ELSE loadLoop2_ZeroBased(insert(st, p.course), Tail(lines), lineNum + 1)

\* enhancement2: while (getline(file, line)) { lineNum++; try { parseCourse;
\* insert } catch { throw "Error on line N: ..." } }
RECURSIVE loadLoop2(_, _, _)
loadLoop2(st, lines, lineNum) ==
    IF lines = <<>> THEN [st |-> st, exc |-> NoThrow]
    ELSE LET p == parseCourse(Head(lines))
         IN  IF p.kind = "throw"
             THEN [st |-> st, exc |-> Throw(p.what, lineNum + 1)]
             ELSE loadLoop2(insert(st, p.course), Tail(lines), lineNum + 1)

\* enhancement3: the three string(const char*) constructions and the Course
\* construction of one row.  string(nullptr) is undefined behaviour.
decodeRow(row) ==
    IF row[1] = SqlNull \/ row[2] = SqlNull \/ row[3] = SqlNull
    THEN [kind |-> "ub", course |-> DefaultCourse, what |-> ""]
    ELSE Course(row[1], row[2], readPrereqs(row[3]))

\* enhancement3: while (sqlite3_step(stmt) == SQLITE_ROW) { ...; insert }.
\* ub is what the build makes of string(nullptr): "throw" (std::logic_error)
\* or "crash" (the process is killed).
RECURSIVE loadLoop3(_, _, _)
loadLoop3(st, rows, ub) ==
    IF rows = <<>> THEN [st |-> st, exc |-> NoThrow, crashed |-> FALSE]
    ELSE LET p == decodeRow(Head(rows))
         IN  IF p.kind = "ub"
             THEN IF ub = "crash"
                  THEN [st |-> st, exc |-> NoThrow, crashed |-> TRUE]
                  ELSE [st |-> st, crashed |-> FALSE,
                        exc |-> Throw("basic_string: construction from null is not valid", 0)]
             ELSE IF p.kind = "throw"
             THEN [st |-> st, exc |-> Throw(p.what, 0), crashed |-> FALSE]
             ELSE loadLoop3(insert(st, p.course), Tail(rows), ub)

(***************************************************************************)
(* What the input of a load is, said without the load loops: the outcome   *)
(* of every unit taken alone, the first unit that is refused, and the      *)
(* Course objects of the units before it.                                  *)
(***************************************************************************)
UnitCsv(line) == parseCourse(line)
UnitSql(row) == decodeRow(row)

\* 1-based position of the first unit that is not turned into a Course,
\* 0 when every unit is
FirstBad(outcomes) ==
    IF \E i \in 1..Len(outcomes) : outcomes[i].kind # "ok"
    THEN CHOOSE i \in 1..Len(outcomes) :
            /\ outcomes[i].kind # "ok"
            /\ \A j \in 1..(i - 1) : outcomes[j].kind = "ok"
    ELSE 0

\* the Course objects of the units before the first refused one
GoodPrefix(outcomes) ==
    LET b == FirstBad(outcomes)
        n == IF b = 0 THEN Len(outcomes) ELSE b - 1
    IN  [i \in 1..n |-> outcomes[i].course]

(***************************************************************************)
(* State.                                                                  *)
(***************************************************************************)
VARIABLES
    variant,      \* which program runs: 1, 2 or 3 (enhancement1..3)
    courseMap,    \* HashTable::courseMap (enhancement1)
    table,        \* HashTable::table: bucket -> head Node or NULL
    heap,         \* the Node objects: address -> Node
    courseOrder,  \* HashTable::courseOrder
    dataLoaded,   \* HashTable::dataLoaded
    sqlite,       \* database handles not released: failed opens, connections, statements
    life,         \* "running", "destroyed" (main returned) or "crashed"
    out,          \* the operation that ran last and what it returned or threw
    inserted,     \* history: the Course objects stored since the table was last emptied
    everLoaded,   \* history: some loadData call has returned normally
    lastLoad,     \* history: how the last loadData call ended
    call,         \* a Course construction or hash computation taken alone
    console       \* cin and userInput of main

vars == <<variant, courseMap, table, heap, courseOrder, dataLoaded, sqlite,
          life, out, inserted, everLoaded, lastLoad, call, console>>

\* the members of the chained table as one record
Chained == [table |-> table, heap |-> heap, courseOrder |-> courseOrder]
\* the members of the map backed table as one record
Mapped == [courseMap |-> courseMap, courseOrder |-> courseOrder]

EmptyMap == [k \in {} |-> DefaultCourse]

Out(op, kind, what, line, course, codes) ==
    [op |-> op, kind |-> kind, what |-> what, line |-> line,
     course |-> course, codes |-> codes]

OutOk(op) == Out(op, "ok", "", 0, DefaultCourse, <<>>)
OutThrow(op, what, line) == Out(op, "throw", what, line, DefaultCourse, <<>>)

\* status: how the last loadData call ended; bad: the first unit of its
\* input that is refused, 0 when none; reload: it returned normally on a
\* table loaded before; rest: the number of units of its input (of units
\* in all) that follow the refused one; cleared: clearTable was called
\* directly since the last reset by a load
Load(status, bad, reload, units) ==
    [status |-> status, bad |-> bad, reload |-> reload,
     rest |-> IF bad = 0 THEN 0 ELSE units - bad, cleared |-> FALSE]

\* no function is looked at alone
NoCall ==
    [fn |-> "none", args |-> <<>>, signedChar |-> TRUE, done |-> FALSE, result |-> <<>>]

\* HashTable::HashTable, and main before its first command
InitTable ==
    /\ variant \in {1, 2, 3}
    /\ courseMap = EmptyMap
    /\ table = [i \in Buckets |-> NULL]
    /\ heap = [n \in NodeIds |-> Unallocated]
    /\ courseOrder = <<>>
    /\ dataLoaded = FALSE
    /\ sqlite = [failedOpen |-> 0, db |-> 0, stmt |-> 0]
    /\ life = "running"
    /\ out = OutOk("none")
    /\ inserted = <<>>
    /\ everLoaded = FALSE
    /\ lastLoad = Load("none", 0, FALSE, 0)

\* the operations are called without the console of main being looked at
NoConsole ==
    [stdin |-> <<>>, newlineAtEnd |-> TRUE, good |-> TRUE, userInput |-> <<>>,
     menu |-> "none", command |-> <<>>]

Init == InitTable /\ call = NoCall /\ console = NoConsole

(***************************************************************************)
(* Operations.                                                             *)
(***************************************************************************)
\* HashTable::getCourse of the running variant, as a value
getCourse(code) ==
    IF variant = 1 THEN getCourseMap(courseMap, dataLoaded, code)
    ELSE getCourseChained(Chained, dataLoaded, code)

\* what HashTable::getSortedCourseCodes returns or throws, as a value
getSortedCourseCodes ==
    IF ~dataLoaded THEN [kind |-> "throw", what |-> "No data loaded.", codes |-> <<>>]
    ELSE [kind |-> "ok", what |-> "", codes |-> sort(courseOrder)]

\* enhancement1 loadData(filename)
\* an open failure that empties courseOrder before it throws
OpenFailedCsv_ClearsKeys ==
    /\ out' = OutThrow("loadData", "Could not open file: ", 0)
    /\ lastLoad' = [Load("openFailed", 0, FALSE, 0) EXCEPT !.cleared = lastLoad.cleared]
    /\ courseOrder' = <<>>
    /\ UNCHANGED <<dataLoaded, inserted, everLoaded>>

\* if (!file.is_open()) throw runtime_error("Could not open file: " + filename);
OpenFailedCsv ==
    /\ out' = OutThrow("loadData", "Could not open file: ", 0)
    /\ lastLoad' = [Load("openFailed", 0, FALSE, 0) EXCEPT !.cleared = lastLoad.cleared]
    /\ UNCHANGED <<courseOrder, dataLoaded, inserted, everLoaded>>

LoadData1(opens, lines) ==
    /\ variant = 1
    /\ life = "running"
    /\ UNCHANGED <<variant, table, heap, sqlite, life, call>>
    /\ IF ~opens
       THEN /\ OpenFailedCsv
            /\ UNCHANGED courseMap
       ELSE \E outcomes \in {[i \in 1..Len(lines) |-> UnitCsv(lines[i])]},
               r \in {loadLoop1([courseMap |-> EmptyMap, courseOrder |-> <<>>], lines, 0)} :
                /\ courseMap' = r.st.courseMap
                /\ courseOrder' = r.st.courseOrder
                /\ inserted' = GoodPrefix(outcomes)
                /\ IF r.exc.thrown
                   THEN /\ out' = OutThrow("loadData", r.exc.what, r.exc.line)
                        /\ lastLoad' = Load("failed", FirstBad(outcomes), FALSE, Len(lines))
                        /\ UNCHANGED <<dataLoaded, everLoaded>>
                   ELSE /\ out' = OutOk("loadData")
                        /\ lastLoad' = Load("ok", FirstBad(outcomes), everLoaded, Len(lines))
                        /\ dataLoaded' = TRUE
                        /\ everLoaded' = TRUE

\* enhancement2 loadData(filename)
LoadData2(opens, lines) ==
    /\ variant = 2
    /\ life = "running"
    /\ UNCHANGED <<variant, courseMap, sqlite, life, call>>
    /\ IF ~opens
       THEN /\ OpenFailedCsv
            /\ UNCHANGED <<table, heap>>
       ELSE \E outcomes \in {[i \in 1..Len(lines) |-> UnitCsv(lines[i])]} :
            /\ Len(GoodPrefix(outcomes)) =< FreeNodes(heap)
            /\ \E r \in {loadLoop2(resetTable2(Chained), lines, 0)} :
                /\ table' = r.st.table
                /\ heap' = r.st.heap
                /\ courseOrder' = r.st.courseOrder
                /\ inserted' = GoodPrefix(outcomes)
                /\ IF r.exc.thrown
                   THEN /\ out' = OutThrow("loadData", r.exc.what, r.exc.line)
                        /\ lastLoad' = Load("failed", FirstBad(outcomes), FALSE, Len(lines))
                        /\ UNCHANGED <<dataLoaded, everLoaded>>
                   ELSE /\ out' = OutOk("loadData")
                        /\ lastLoad' = Load("ok", FirstBad(outcomes), everLoaded, Len(lines))
                        /\ dataLoaded' = TRUE
                        /\ everLoaded' = TRUE

\* handles the run has left open
OpenHandles == sqlite.failedOpen + sqlite.db

\* enhancement3 loadData()
\* opens: sqlite3_open returns SQLITE_OK; prepares: sqlite3_prepare_v2 does;
\* rows: what sqlite3_step yields, one of results; ub: what the build makes
\* of string(nullptr)
LoadData3(opens, prepares, results) ==
    /\ variant = 3
    /\ life = "running"
    /\ UNCHANGED <<variant, courseMap, call>>
    /\ IF ~opens
       THEN \* sqlite3_open failed: the handle is not passed to sqlite3_close
            /\ OpenHandles < MaxHandles
            /\ sqlite' = [sqlite EXCEPT !.failedOpen = @ + 1]
            /\ out' = OutThrow("loadData", "Could not open database: ABCU.db", 0)
            /\ lastLoad' = [Load("openFailed", 0, FALSE, 0) EXCEPT !.cleared = lastLoad.cleared]
            /\ UNCHANGED <<table, heap, courseOrder, dataLoaded, life, inserted, everLoaded>>
       ELSE \E st \in {resetTable3(Chained)} :
            IF ~prepares
            THEN \* sqlite3_prepare_v2 failed: the connection is closed
                 /\ table' = st.table
                 /\ heap' = st.heap
                 /\ courseOrder' = st.courseOrder
                 /\ inserted' = <<>>
                 /\ out' = OutThrow("loadData", "Failed to query database.", 0)
                 /\ lastLoad' = Load("prepareFailed", 0, FALSE, 0)
                 /\ UNCHANGED <<dataLoaded, sqlite, life, everLoaded>>
            ELSE \E rows \in results :
                 \E outcomes \in {[i \in 1..Len(rows) |-> UnitSql(rows[i])]} :
                 \E ub \in (IF FirstBad(outcomes) # 0
                               /\ outcomes[FirstBad(outcomes)].kind = "ub"
                            THEN {"throw", "crash"} ELSE {"throw"}) :
                 /\ Len(GoodPrefix(outcomes)) =< FreeNodes(st.heap)
                 /\ \E r \in {loadLoop3(st, rows, ub)} :
                    /\ table' = r.st.table
                    /\ heap' = r.st.heap
                    /\ courseOrder' = r.st.courseOrder
                    /\ inserted' = GoodPrefix(outcomes)
                    /\ IF r.crashed
                       THEN \* the process is gone, and its handles with it
                            /\ life' = "crashed"
                            /\ out' = Out("loadData", "crash", "", 0, DefaultCourse, <<>>)
                            /\ lastLoad' = Load("failed", FirstBad(outcomes), FALSE, Len(rows))
                            /\ UNCHANGED <<dataLoaded, sqlite, everLoaded>>
                       ELSE IF r.exc.thrown
                       THEN \* the exception leaves loadData past finalize and close
                            /\ OpenHandles < MaxHandles
                            /\ sqlite' = [sqlite EXCEPT !.db = @ + 1, !.stmt = @ + 1]
                            /\ out' = OutThrow("loadData", r.exc.what, r.exc.line)
                            /\ lastLoad' = Load("failed", FirstBad(outcomes), FALSE, Len(rows))
                            /\ UNCHANGED <<dataLoaded, life, everLoaded>>
                       ELSE \* sqlite3_finalize, sqlite3_close
                            /\ out' = OutOk("loadData")
                            /\ lastLoad' = Load("ok", FirstBad(outcomes), everLoaded, Len(rows))
                            /\ dataLoaded' = TRUE
                            /\ everLoaded' = TRUE
                            /\ UNCHANGED <<sqlite, life>>

\* a call of getCourse(code)
GetCourse(code) ==
    /\ life = "running"
    /\ LET r == getCourse(code)
       IN  out' = Out("getCourse", r.kind, r.what, 0, r.course, <<>>)
    /\ UNCHANGED <<variant, courseMap, table, heap, courseOrder, dataLoaded, sqlite,
                   life, inserted, everLoaded, lastLoad, call>>

\* a call of getSortedCourseCodes(): courseOrder is sorted in place
GetSortedCourseCodes ==
    /\ life = "running"
    /\ LET r == getSortedCourseCodes
       IN  /\ out' = Out("getSortedCourseCodes", r.kind, r.what, 0,
                         DefaultCourse, r.codes)
           /\ courseOrder' = IF r.kind = "ok" THEN r.codes ELSE courseOrder
    /\ UNCHANGED <<variant, courseMap, table, heap, dataLoaded, sqlite, life,
                   inserted, everLoaded, lastLoad, call>>

\* a call of the public insert(course) (enhancement2, enhancement3); the
\* model stops inserting when the heap or MaxNodes keys are used up
Insert(course) ==
    /\ variant \in {2, 3}
    /\ life = "running"
    /\ FreeNodes(heap) > 0
    /\ Len(courseOrder) < MaxNodes
    /\ \E st \in {insert(Chained, course)} :
           /\ table' = st.table
           /\ heap' = st.heap
           /\ courseOrder' = st.courseOrder
    /\ inserted' = Append(inserted, course)
    /\ out' = OutOk("insert")
    /\ UNCHANGED <<variant, courseMap, dataLoaded, sqlite, life, everLoaded, lastLoad,
                   call>>

\* a call of the public clearTable() (enhancement3)
ClearTable ==
    /\ variant = 3
    /\ life = "running"
    /\ \E st \in {clearTable(Chained)} :
           /\ table' = st.table
           /\ heap' = st.heap
           /\ courseOrder' = st.courseOrder
    /\ inserted' = <<>>
    /\ out' = OutOk("clearTable")
    /\ lastLoad' = [lastLoad EXCEPT !.cleared = TRUE]
    /\ UNCHANGED <<variant, courseMap, dataLoaded, sqlite, life, everLoaded, call>>

\* main returns: the HashTable object is destroyed.  Only enhancement3
\* declares a destructor; the members of the others are destroyed, the
\* Node objects of enhancement2 are not.
Destroy ==
    /\ life = "running"
    /\ life' = "destroyed"
    /\ heap' = IF variant = 3 THEN destructor(Chained).heap ELSE heap
    /\ out' = OutOk("destroy")
    /\ UNCHANGED <<variant, courseMap, table, courseOrder, dataLoaded, sqlite,
                   inserted, everLoaded, lastLoad, call>>

\* the commands of main: load, list, look up, exit
Next ==
    \/ \E lines \in Files : LoadData1(TRUE, lines) /\ UNCHANGED console
    \/ LoadData1(FALSE, <<>>) /\ UNCHANGED console
    \/ \E lines \in Files : LoadData2(TRUE, lines) /\ UNCHANGED console
    \/ LoadData2(FALSE, <<>>) /\ UNCHANGED console
    \/ LoadData3(TRUE, TRUE, Results) /\ UNCHANGED console
    \/ \E opens \in BOOLEAN : LoadData3(opens, FALSE, {}) /\ UNCHANGED console
    \/ \E code \in Codes : GetCourse(code) /\ UNCHANGED console
    \/ GetSortedCourseCodes /\ UNCHANGED console
    \/ Destroy /\ UNCHANGED console

Spec == Init /\ [][Next]_vars

\* calls of the public operations of a HashTable object, insert and
\* clearTable among them; the table is filled by insert, the loads read
\* shorter inputs
NextApi ==
    \/ \E lines \in ApiFiles : LoadData1(TRUE, lines) /\ UNCHANGED console
    \/ \E lines \in ApiFiles : LoadData2(TRUE, lines) /\ UNCHANGED console
    \/ LoadData3(TRUE, TRUE, ApiResults) /\ UNCHANGED console
    \/ \E opens \in BOOLEAN : LoadData3(opens, FALSE, {}) /\ UNCHANGED console
    \/ \E code \in Codes : GetCourse(code) /\ UNCHANGED console
    \/ GetSortedCourseCodes /\ UNCHANGED console
    \/ \E course \in Courses : Insert(course) /\ UNCHANGED console
    \/ ClearTable /\ UNCHANGED console
    \/ Destroy /\ UNCHANGED console

SpecApi == Init /\ [][NextApi]_vars

(***************************************************************************)
(* The Course constructors taken alone: a call is drawn in the initial     *)
(* state and the constructor is applied to it.                             *)
(***************************************************************************)
tableVars == <<variant, courseMap, table, heap, courseOrder, dataLoaded, sqlite,
               life, out, inserted, everLoaded, lastLoad, console>>

\* signedChar: the build makes plain char a signed type
Call(fn, args) ==
    [fn |-> fn, args |-> args, signedChar |-> TRUE, done |-> FALSE, result |-> <<>>]

InitCourse ==
    /\ InitTable
    /\ console = NoConsole
    /\ call \in {Call("Course", <<c, t, p>>) :
                    c \in Codes, t \in Titles, p \in PrereqLists}
                \cup {Call("Course()", <<>>)}

\* Course(c, t, p)
ConstructCourse ==
    /\ call.fn = "Course"
    /\ ~call.done
    /\ call' = [call EXCEPT !.done = TRUE,
                            !.result = Course(call.args[1], call.args[2], call.args[3])]
    /\ UNCHANGED tableVars

\* Course()
ConstructDefault ==
    /\ call.fn = "Course()"
    /\ ~call.done
    /\ call' = [call EXCEPT !.done = TRUE, !.result = Returned(DefaultCourse)]
    /\ UNCHANGED tableVars

NextCourse == ConstructCourse \/ ConstructDefault

SpecCourse == InitCourse /\ [][NextCourse]_vars

(***************************************************************************)
(* HashTable::hash taken alone (enhancement2, enhancement3): a key and a   *)
(* build are drawn in the initial state and hash is applied to the key.    *)
(***************************************************************************)
InitHash ==
    /\ InitTable
    /\ console = NoConsole
    /\ variant \in {2, 3}
    /\ call \in {[Call("hash", <<key>>) EXCEPT !.signedChar = b] :
                    key \in Keys, b \in BOOLEAN}

\* hash(key)
ComputeHash ==
    /\ call.fn = "hash"
    /\ ~call.done
    /\ call' = [call EXCEPT !.done = TRUE,
                            !.result = hashOn(call.signedChar, call.args[1])]
    /\ UNCHANGED tableVars

NextHash == ComputeHash

SpecHash == InitHash /\ [][NextHash]_vars

(***************************************************************************)
(* HashTable::parseCourse taken alone (enhancement1, enhancement2): a line *)
(* of 'A', 'B' and ',' is drawn in the initial state and parsed.           *)
(***************************************************************************)
LineChars == {65, 66, Comma}

InitParse ==
    /\ InitTable
    /\ console = NoConsole
    /\ variant \in {1, 2}
    /\ call \in {Call("parseCourse", <<line>>) : line \in SeqsUpTo(LineChars, MaxLineLen)}

\* parseCourse(line)
ParseLine ==
    /\ call.fn = "parseCourse"
    /\ ~call.done
    /\ call' = [call EXCEPT !.done = TRUE, !.result = parseCourse(call.args[1])]
    /\ UNCHANGED tableVars

NextParse == ParseLine

SpecParse == InitParse /\ [][NextParse]_vars

(***************************************************************************)
(* main: the menu loop reading the standard input.  The input is a         *)
(* sequence of lines; newlineAtEnd tells whether the last of them ends     *)
(* with '\n'; good is cin.good().  Lines are written as character codes:  *)
(*   49 '1'  50 '2'  51 '3'  52 '4'  57 '9'  65 'A'                        *)
(***************************************************************************)
InputLines == { <<49>>, <<50>>, <<51>>, <<52>>, <<57>>, <<65>> }

\* the files and query results the loads of a run of main read
MainFiles == SeqsUpTo({ <<65, Comma, 84>>, <<65>> }, 1)
MainResults == SeqsUpTo({ <<<<65>>, <<84>>, <<>>>>, <<<<>>, <<84>>, <<>>>> }, 1)

\* getline(cin, str): when the stream is not good nothing is extracted and
\* str keeps its value; otherwise str is erased and filled up to the next
\* '\n' or the end of the input, and reaching the end sets eofbit
getlineCin(con, str) ==
    IF ~con.good THEN [con |-> con, str |-> str, read |-> FALSE]
    ELSE IF con.stdin = <<>>
    THEN [con |-> [con EXCEPT !.good = FALSE], str |-> <<>>, read |-> FALSE]
    ELSE IF Len(con.stdin) = 1 /\ ~con.newlineAtEnd
    THEN [con |-> [con EXCEPT !.stdin = <<>>, !.good = FALSE],
          str |-> con.stdin[1], read |-> TRUE]
    ELSE [con |-> [con EXCEPT !.stdin = Tail(@)], str |-> Head(con.stdin),
          read |-> TRUE]

\* displayMenu(); getline(cin, userInput);
Menu == getlineCin(console, console.userInput)

\* how userInput got its value at the menu prompt: a line was extracted, the
\* input was found exhausted and userInput erased, or nothing was done
MenuKind ==
    IF Menu.read THEN "line" ELSE IF console.good THEN "end" ELSE "stale"

\* the console after the iteration: con is cin after its last getline, str
\* is userInput
Console(con, str) ==
    [con EXCEPT !.userInput = str, !.menu = MenuKind, !.command = Menu.str]

InitMain ==
    /\ InitTable
    /\ call = NoCall
    /\ console \in {[NoConsole EXCEPT !.stdin = s, !.newlineAtEnd = b] :
                       s \in SeqsUpTo(InputLines, MaxInput), b \in BOOLEAN}
    /\ console.stdin = <<>> => console.newlineAtEnd

\* userInput == "1" || userInput == "4" (enhancement1, enhancement2);
\* userInput == "1" (enhancement3)
CommandLoad ==
    /\ life = "running"
    /\ Menu.str = <<49>> \/ (Menu.str = <<52>> /\ variant \in {1, 2})
    /\ LET f == IF Menu.str = <<52>> THEN getlineCin(Menu.con, <<>>)
                ELSE [con |-> Menu.con, str |-> <<80>>, read |-> FALSE]
       IN  /\ console' = Console(f.con, Menu.str)
           /\ \/ \E opens \in BOOLEAN, lines \in MainFiles :
                    /\ f.str = <<>> => ~opens
                    /\ LoadData1(opens, lines) \/ LoadData2(opens, lines)
              \/ LoadData3(TRUE, TRUE, MainResults)
              \/ \E opens \in BOOLEAN : LoadData3(opens, FALSE, {})

\* userInput == "2"; the getCourse calls of the loop change nothing
CommandList ==
    /\ life = "running"
    /\ Menu.str = <<50>>
    /\ console' = Console(Menu.con, Menu.str)
    /\ GetSortedCourseCodes

\* userInput == "3"; the course code is read into userInput
CommandCourse ==
    /\ life = "running"
    /\ Menu.str = <<51>>
    /\ LET c == getlineCin(Menu.con, Menu.str)
       IN  /\ console' = Console(c.con, c.str)
           /\ GetCourse(c.str)

\* userInput == "9": break, main returns
CommandExit ==
    /\ life = "running"
    /\ Menu.str = <<57>>
    /\ console' = Console(Menu.con, Menu.str)
    /\ Destroy

\* else: "Invalid selection."
CommandInvalid ==
    /\ life = "running"
    /\ Menu.str \notin {<<49>>, <<50>>, <<51>>, <<57>>}
    /\ Menu.str = <<52>> => variant = 3
    /\ console' = Console(Menu.con, Menu.str)
    /\ out' = OutOk("Invalid selection.")
    /\ UNCHANGED <<variant, courseMap, table, heap, courseOrder, dataLoaded, sqlite,
                   life, inserted, everLoaded, lastLoad, call>>

\* one iteration of while (true)
NextMain ==
    \/ CommandLoad
    \/ CommandList
    \/ CommandCourse
    \/ CommandExit
    \/ CommandInvalid

SpecMain == InitMain /\ [][NextMain]_vars

(***************************************************************************)
(* Vocabulary of the properties.                                           *)
(***************************************************************************)
\* the HashTable object exists and can be called
Running == life = "running"

StateError == Thrown("No data loaded.")
NotFoundError == Thrown("Course not found.")
ValidationError == Thrown("Invalid Course Data: Code or Title is missing.")

\* the canonical code of a Course
Canon(c) == toUpper(c.code)

\* positions of the stored Course objects whose canonical code is that of code
Holders(code) == {i \in 1..Len(inserted) : Canon(inserted[i]) = toUpper(code)}

\* the first stored Course with the canonical code of code
FirstHolder(code) ==
    inserted[CHOOSE i \in Holders(code) : \A j \in Holders(code) : i =< j]

\* the canonical codes of the stored Course objects, in the order they were
\* stored
InsertionOrder == [i \in 1..Len(inserted) |-> Canon(inserted[i])]

\* how often key occurs in the sequence s
Occurrences(s, key) == Cardinality({i \in 1..Len(s) : s[i] = key})

\* no element of s is greater than its successor
Ascending(s) == \A i \in 1..(Len(s) - 1) : ~StrLess(s[i + 1], s[i])

\* the stored Course objects have pairwise distinct canonical codes
DistinctCodes ==
    \A i, j \in 1..Len(inserted) : Canon(inserted[i]) = Canon(inserted[j]) => i = j

\* the Node objects of the chain that starts at curr
RECURSIVE ChainNodes(_, _)
ChainNodes(h, curr) ==
    IF curr = NULL THEN {} ELSE {curr} \cup ChainNodes(h, h[curr].next)

\* the Node objects some bucket leads to
Reachable == UNION {ChainNodes(heap, table[i]) : i \in Buckets}

\* the Course objects of the chain that starts at curr, head first
RECURSIVE ChainCourses(_, _)
ChainCourses(h, curr) ==
    IF curr = NULL THEN <<>> ELSE <<h[curr].course>> \o ChainCourses(h, h[curr].next)

\* the Course objects of cs that belong to bucket i, in the order of cs
OfBucket(cs, i) ==
    LET InBucket(c) == hash(Canon(c)) = i
    IN  SelectSeq(cs, InBucket)

\* the table holds the Course objects of cs, stored in that order, and
\* nothing else: the keys in courseOrder, the Course objects in the chains
\* (chained variants) or, the last of each canonical code, in the map
StoredExactly(cs) ==
    /\ courseOrder = [i \in 1..Len(cs) |-> Canon(cs[i])]
    /\ variant = 1 =>
          /\ DOMAIN courseMap = {Canon(cs[i]) : i \in 1..Len(cs)}
          /\ \A i \in 1..Len(cs) :
                (\A j \in (i + 1)..Len(cs) : Canon(cs[j]) # Canon(cs[i]))
                    => courseMap[Canon(cs[i])] = cs[i]
    /\ variant \in {2, 3} =>
          \A i \in Buckets : ChainCourses(heap, table[i]) = OfBucket(cs, i)

\* what a caller can observe of a chained table: every lookup and the listing
ObservableChained(st, loaded) ==
    [lookup |-> [c \in Codes |-> getCourseChained(st, loaded, c)],
     list   |-> IF loaded THEN sort(st.courseOrder) ELSE <<>>]

\* what a caller can observe of a map backed table
ObservableMapped(st, loaded) ==
    [lookup |-> [c \in Codes |-> getCourseMap(st.courseMap, loaded, c)],
     list   |-> IF loaded THEN sort(st.courseOrder) ELSE <<>>]

\* a table just constructed on which one load stored the Course objects cs
RECURSIVE FreshChained(_, _)
FreshChained(st, cs) ==
    IF cs = <<>> THEN st ELSE FreshChained(insert(st, Head(cs)), Tail(cs))

RECURSIVE FreshMapped(_, _)
FreshMapped(st, cs) ==
    IF cs = <<>> THEN st
    ELSE FreshMapped([courseMap   |-> mapAssign(st.courseMap, Canon(Head(cs)), Head(cs)),
                      courseOrder |-> Append(st.courseOrder, Canon(Head(cs)))],
                     Tail(cs))

ConstructedChained ==
    [table |-> [i \in Buckets |-> NULL], heap |-> [n \in NodeIds |-> Unallocated],
     courseOrder |-> <<>>]

ConstructedMapped == [courseMap |-> EmptyMap, courseOrder |-> <<>>]

(***************************************************************************)
(* C1. As long as no loadData call has returned normally, getCourse(code)  *)
(* for every code and getSortedCourseCodes() throw "No data loaded.",      *)
(* whatever the buckets hold, also after a load that stopped partway.      *)
(***************************************************************************)
C1_QueriesRejectedBeforeLoad ==
    (Running /\ ~everLoaded) =>
        /\ \A c \in Codes : getCourse(c) = StateError
        /\ getSortedCourseCodes.kind = "throw"
        /\ getSortedCourseCodes.what = "No data loaded."

\* a first load stopped partway and left entries, then a lookup was refused
C1_Witness ==
    /\ Running
    /\ ~everLoaded
    /\ lastLoad.status = "failed"
    /\ inserted # <<>>
    /\ out.op = "getCourse"
    /\ out.what = "No data loaded."

(***************************************************************************)
(* C2. After a loadData call that returned normally and stored records     *)
(* with pairwise distinct canonical codes, getCourse(r.code) returns       *)
(* exactly r for every stored r, also when codes share a bucket, and       *)
(* getSortedCourseCodes() returns exactly the canonical codes, ascending.  *)
(***************************************************************************)
C2_LoadThenLookupAndList ==
    (Running /\ lastLoad.status = "ok" /\ ~lastLoad.cleared /\ DistinctCodes) =>
        /\ \A i \in 1..Len(inserted) :
              getCourse(inserted[i].code) = Returned(inserted[i])
        /\ getSortedCourseCodes.kind = "ok"
        /\ Len(getSortedCourseCodes.codes) = Len(inserted)
        /\ \A i \in 1..Len(inserted) :
              Occurrences(getSortedCourseCodes.codes, Canon(inserted[i])) = 1
        /\ Ascending(getSortedCourseCodes.codes)

\* two distinct codes of one bucket were loaded in descending order into a
\* chained table, and looked up
C2_Witness ==
    /\ Running
    /\ variant \in {2, 3}
    /\ lastLoad.status = "ok"
    /\ Len(inserted) = 2
    /\ DistinctCodes
    /\ hash(Canon(inserted[1])) = hash(Canon(inserted[2]))
    /\ StrLess(Canon(inserted[2]), Canon(inserted[1]))
    /\ out.op = "getCourse"
    /\ out.course = inserted[1]

(***************************************************************************)
(* C3. After a loadData call that threw partway (a malformed row, a        *)
(* Course that fails validation, a query that cannot be prepared) the      *)
(* table is not loaded: dataLoaded is false and every query throws         *)
(* "No data loaded.", whatever happened before, an earlier successful      *)
(* load included.                                                          *)
(***************************************************************************)
C3_FailedLoadLeavesUnloaded ==
    (Running /\ lastLoad.status \in {"failed", "prepareFailed"}) =>
        /\ ~dataLoaded
        /\ \A c \in Codes : getCourse(c) = StateError
        /\ getSortedCourseCodes.kind = "throw"

(***************************************************************************)
(* C4. After clearTable() on a loaded table the table is unloaded: the     *)
(* lookup of any code, the codes stored before the clear among them,       *)
(* throws "No data loaded." and not "Course not found.".                   *)
(***************************************************************************)
C4_ClearUnloads ==
    (Running /\ out.op = "clearTable") =>
        /\ ~dataLoaded
        /\ \A c \in Codes : getCourse(c) = StateError

C6_MapKeepsFirstLoaded ==
    (Running /\ variant = 1 /\ lastLoad.status = "ok") =>
        \A c \in Codes :
            /\ Occurrences(getSortedCourseCodes.codes, toUpper(c))
                  = Cardinality(Holders(c))
            /\ Holders(c) # {} => getCourse(c) = Returned(FirstHolder(c))

(***************************************************************************)
(* C7. On a table whose dataLoaded flag is set, getCourse(code) throws     *)
(* "Course not found." exactly when no record with the canonical code      *)
(* upper(code) was stored since the table was last emptied, and a record   *)
(* it returns has that canonical code, also when another record shares     *)
(* the bucket.                                                             *)
(***************************************************************************)
C7_NotFoundIffAbsent ==
    (Running /\ dataLoaded) =>
        \A c \in Codes :
            /\ (getCourse(c) = NotFoundError) <=> (Holders(c) = {})
            /\ getCourse(c).kind \in {"ok", "throw"}
            /\ getCourse(c).kind = "ok" => Canon(getCourse(c).course) = toUpper(c)
            /\ getCourse(c).kind = "throw" => getCourse(c) = NotFoundError

\* a lookup was answered "Course not found." although the bucket of the
\* code holds a record of another code
C7_Witness ==
    /\ Running
    /\ variant \in {2, 3}
    /\ dataLoaded
    /\ out.op = "getCourse"
    /\ out.what = "Course not found."
    /\ \E c \in Codes :
          /\ Holders(c) = {}
          /\ \E i \in 1..Len(inserted) : hash(Canon(inserted[i])) = hash(toUpper(c))

(***************************************************************************)
(* C8. getCourse is case-insensitive: codes with the same upper-case form  *)
(* get the same outcome, the same record or the same error, in every       *)
(* state, whichever spelling was stored.                                   *)
(***************************************************************************)
C8_LookupIgnoresCase ==
    Running =>
        \A c1, c2 \in Codes : toUpper(c1) = toUpper(c2) => getCourse(c1) = getCourse(c2)

\* a record stored under a lower-case code was found, and the upper-case
\* spelling of the code finds it too
C8_Witness ==
    /\ Running
    /\ dataLoaded
    /\ out.op = "getCourse"
    /\ out.kind = "ok"
    /\ out.course.code # toUpper(out.course.code)
    /\ getCourse(toUpper(out.course.code)) = Returned(out.course)
    /\ toUpper(out.course.code) \in Codes /\ out.course.code \in Codes

(***************************************************************************)
(* C9. A load clears what was there: after a loadData call that returned   *)
(* normally, every lookup and the listing are those of a table just        *)
(* constructed on which that one load ran; nothing of an earlier load      *)
(* survives.                                                               *)
(***************************************************************************)
C9_ReloadEqualsFreshLoad ==
    (Running /\ lastLoad.status = "ok" /\ ~lastLoad.cleared) =>
        IF variant = 1
        THEN ObservableMapped(Mapped, dataLoaded)
                = ObservableMapped(FreshMapped(ConstructedMapped, inserted), TRUE)
        ELSE ObservableChained(Chained, dataLoaded)
                = ObservableChained(FreshChained(ConstructedChained, inserted), TRUE)

\* a second load returned normally and the first had stored a record whose
\* code the second does not hold (its Node is still on the heap of
\* enhancement2)
C9_Witness ==
    /\ Running
    /\ variant = 2
    /\ lastLoad.status = "ok"
    /\ lastLoad.reload
    /\ out.op = "loadData"
    /\ \E n \in NodeIds \ Reachable :
          /\ heap[n].state = "live"
          /\ Holders(heap[n].course.code) = {}

(***************************************************************************)
(* C10. In enhancement2 no Node leaks: while the program runs every Node   *)
(* that was allocated and not released is reachable from a bucket, and     *)
(* once the table is destroyed every Node has been released.               *)
(***************************************************************************)
C10_NoNodeLeaks ==
    variant = 2 =>
        /\ life = "running" =>
              \A n \in NodeIds : heap[n].state = "live" => n \in Reachable
        /\ life = "destroyed" =>
              \A n \in NodeIds : heap[n].state # "live"

(***************************************************************************)
(* C11. In enhancement3 clearTable is idempotent and memory-safe: it       *)
(* releases every Node of every chain once and leaves every bucket empty,  *)
(* so that no released Node can be reached; no Node is released a second   *)
(* time by another clearTable, by a following loadData or by the           *)
(* destructor, and after the destructor no Node is left allocated.         *)
(***************************************************************************)
C11_ClearTableReleasesOnce ==
    variant = 3 =>
        /\ \A n \in NodeIds : heap[n].state # "doublefree"
        /\ Running =>
              /\ \A n \in NodeIds : heap[n].state = "live" <=> n \in Reachable
              /\ clearTable(clearTable(Chained)) = clearTable(Chained)
              /\ \A i \in Buckets : clearTable(Chained).table[i] = NULL
              /\ \A n \in NodeIds : clearTable(Chained).heap[n].state = "free"
        /\ (Running /\ out.op = "clearTable") =>
              /\ \A i \in Buckets : table[i] = NULL
              /\ \A n \in NodeIds : heap[n].state = "free"
        /\ life = "destroyed" => \A n \in NodeIds : heap[n].state = "free"

\* clearTable emptied a table that held records (their keys are still in
\* courseOrder), and the destructor ran after it
C11_Witness ==
    /\ variant = 3
    /\ life = "destroyed"
    /\ lastLoad.cleared
    /\ inserted = <<>>
    /\ courseOrder # <<>>
    /\ \A i \in Buckets : table[i] = NULL
    /\ \A n \in NodeIds : heap[n].state = "free"

(***************************************************************************)
(* C12. In the chained variants, in every state the public operations      *)
(* (insert, loadData that returns or throws, clearTable,                   *)
(* getSortedCourseCodes) lead to, courseOrder holds as a multiset exactly  *)
(* the canonical codes of the Nodes of all chains; hence getCourse finds   *)
(* every key getSortedCourseCodes() returns.                               *)
(***************************************************************************)
C12_KeysMatchChains ==
    (Running /\ variant \in {2, 3}) =>
        /\ Len(courseOrder) = Cardinality(Reachable)
        /\ \A c \in Codes :
              Occurrences(courseOrder, toUpper(c))
                 = Cardinality({n \in Reachable : Canon(heap[n].course) = toUpper(c)})
        /\ dataLoaded =>
              \A i \in 1..Len(getSortedCourseCodes.codes) :
                  getCourse(getSortedCourseCodes.codes[i]).kind = "ok"

(***************************************************************************)
(* C13. courseOrder holds the canonical keys in the order they were        *)
(* inserted, in every state: getSortedCourseCodes() returns a sorted copy  *)
(* and leaves courseOrder itself in insertion order.                       *)
(***************************************************************************)
C13_KeysInInsertionOrder ==
    Running =>
        /\ courseOrder = InsertionOrder
        /\ (out.op = "getSortedCourseCodes" /\ out.kind = "ok") =>
              out.codes = sort(InsertionOrder)

(***************************************************************************)
(* C14. On a table whose dataLoaded flag is set, getSortedCourseCodes()    *)
(* returns an ascending sequence that is a permutation of the canonical    *)
(* keys inserted since the table was last emptied, duplicates kept and     *)
(* nothing dropped or added, and a repeated call returns the same          *)
(* sequence.                                                               *)
(***************************************************************************)
C14_ListIsSortedPermutation ==
    (Running /\ dataLoaded) =>
        /\ getSortedCourseCodes.kind = "ok"
        /\ Ascending(getSortedCourseCodes.codes)
        /\ Len(getSortedCourseCodes.codes) = Len(inserted)
        /\ \A c \in Codes :
              Occurrences(getSortedCourseCodes.codes, toUpper(c))
                 = Cardinality(Holders(c))
        /\ sort(getSortedCourseCodes.codes) = getSortedCourseCodes.codes
        /\ (out.op = "getSortedCourseCodes" /\ out.kind = "ok") =>
              getSortedCourseCodes.codes = out.codes

(***************************************************************************)
(* C15. Course(code, title, prerequisites) succeeds exactly when code and  *)
(* title are both non-empty; when one is empty it throws the validation    *)
(* error whatever the prerequisites are, and on success the object holds   *)
(* the three arguments unchanged.                                          *)
(***************************************************************************)
C15_CourseValidatesCodeAndTitle ==
    (call.fn = "Course" /\ call.done) =>
        /\ call.result.kind = "ok" <=> (call.args[1] # <<>> /\ call.args[2] # <<>>)
        /\ call.result.kind = "ok" =>
              call.result.course = [code          |-> call.args[1],
                                    title         |-> call.args[2],
                                    prerequisites |-> call.args[3]]
        /\ call.result.kind # "ok" =>
              call.result = Thrown("Invalid Course Data: Code or Title is missing.")

\* a construction with a code, prerequisites and an empty title was refused
C15_Witness ==
    /\ call.fn = "Course"
    /\ call.done
    /\ call.args[1] # <<>>
    /\ call.args[2] = <<>>
    /\ call.args[3] # <<>>
    /\ call.result.kind = "throw"

(***************************************************************************)
(* C16. No Course with an empty code or an empty title exists: whichever   *)
(* public constructor is used, a construction that succeeds yields an      *)
(* object whose code and title are both non-empty.                         *)
(***************************************************************************)
C16_NoEmptyCourseExists ==
    (call.done /\ call.result.kind = "ok") =>
        /\ call.result.course.code # <<>>
        /\ call.result.course.title # <<>>

(***************************************************************************)
(* The polynomial of C17, computed on numbers written as base-256 digits,  *)
(* least significant first: with 4 digits the arithmetic is modulo 2^32,   *)
(* with 8 digits it is exact for the keys looked at.                       *)
(***************************************************************************)
\* h * m + a (+ carry), cut to the number of digits of h
RECURSIVE MulAdd(_, _, _, _)
MulAdd(h, m, a, carry) ==
    IF h = <<>> THEN <<>>
    ELSE LET t == Head(h) * m + Head(a) + carry
         IN  <<t % 256>> \o MulAdd(Tail(h), m, Tail(a), t \div 256)

\* the integer v, -256 < v < 256, as a number of width digits modulo 256^width
DigitsOf(v, width) ==
    [i \in 1..width |-> IF i = 1 THEN (v + 256) % 256
                        ELSE IF v < 0 THEN 255 ELSE 0]

\* h = h * 31 + code, folded over codes, in width digits
RECURSIVE PolyDigits(_, _, _)
PolyDigits(h, codes, width) ==
    IF codes = <<>> THEN h
    ELSE PolyDigits(MulAdd(h, 31, DigitsOf(Head(codes), width), 0), Tail(codes), width)

\* the number written by the digits d, modulo m
RECURSIVE DigitsMod(_, _)
DigitsMod(d, m) ==
    IF d = <<>> THEN 0 ELSE (DigitsMod(Tail(d), m) * 256 + Head(d)) % m

\* the polynomial modulo 2^32, then modulo the table size
PolyIndex(codes) ==
    DigitsMod(PolyDigits(DigitsOf(0, 4), codes, 4), HASH_TABLE_SIZE)

\* the polynomial without wrap-around
PolyExact(codes) == PolyDigits(DigitsOf(0, 8), codes, 8)

\* the value of the plain char with character code ch on the build
CharValue(signedChar, ch) == IF signedChar /\ ch > 127 THEN ch - 256 ELSE ch

(***************************************************************************)
(* C17. hash(key) is the polynomial h = h * 31 + code(c) over the          *)
(* characters of the key, computed modulo 2^32 from 0 and reduced modulo   *)
(* 17, code(c) being the character code 0..255; the result is an index in  *)
(* 0..16 for every key, the empty key, keys that overflow and keys with    *)
(* codes above 127 included, and overflow wraps.                           *)
(***************************************************************************)
C17_HashIsPolynomialOfCodes ==
    (call.fn = "hash" /\ call.done) =>
        /\ call.result \in 0..(HASH_TABLE_SIZE - 1)
        /\ call.result = PolyIndex(call.args[1])

(***************************************************************************)
(* What does hold of hash on every build: it is that polynomial with       *)
(* code(c) the value of the plain char converted to unsigned int (the      *)
(* character code for codes up to 127 and where char is unsigned, the      *)
(* code minus 256 modulo 2^32 for codes above 127 where char is signed),   *)
(* the result is an index in 0..16 for every key, and overflow wraps.      *)
(***************************************************************************)
HashIsPolynomialOfChars ==
    (call.fn = "hash" /\ call.done) =>
        /\ call.result \in 0..(HASH_TABLE_SIZE - 1)
        /\ call.result =
              PolyIndex([i \in 1..Len(call.args[1]) |->
                            CharValue(call.signedChar, call.args[1][i])])
        /\ (\A i \in 1..Len(call.args[1]) : call.args[1][i] =< 127) =>
              call.result = PolyIndex(call.args[1])
        /\ call.args[1] = <<>> => call.result = 0

\* a key of codes up to 127 whose polynomial exceeds 2^32 - 1: the index is
\* that of the wrapped value, not of the exact one
HashWrapped ==
    /\ call.fn = "hash"
    /\ call.done
    /\ \A i \in 1..Len(call.args[1]) : call.args[1][i] =< 127
    /\ SubSeq(PolyExact(call.args[1]), 5, 8) # <<0, 0, 0, 0>>
    /\ call.result = PolyIndex(call.args[1])
    /\ call.result # DigitsMod(PolyExact(call.args[1]), HASH_TABLE_SIZE)

(***************************************************************************)
(* C18. A CSV load (enhancement1, enhancement2) of a file with malformed   *)
(* or invalid lines throws one error, which names the 1-based number of    *)
(* the first such line; that line and the lines after it are not stored:   *)
(* the table holds the records of the lines before it.  A load returns     *)
(* normally only when the file has no such line.                           *)
(***************************************************************************)
C18_CsvErrorNamesFirstBadLine ==
    (variant \in {1, 2} /\ out.op = "loadData"
        /\ lastLoad.status \in {"ok", "failed"}) =>
        /\ lastLoad.bad = 0 <=> out.kind = "ok"
        /\ lastLoad.bad # 0 =>
              /\ out.kind = "throw"
              /\ out.line = lastLoad.bad
              /\ out.what \in {"Malformed line in file.",
                                "Invalid Course Data: Code or Title is missing."}
              /\ Len(inserted) = lastLoad.bad - 1
              /\ StoredExactly(inserted)

\* the first line of a file of two lines was refused: the error names line
\* 1 and nothing is stored
C18_Witness ==
    /\ variant \in {1, 2}
    /\ out.op = "loadData"
    /\ out.kind = "throw"
    /\ out.line = 1
    /\ lastLoad.bad = 1
    /\ lastLoad.rest >= 1
    /\ everLoaded
    /\ courseOrder = <<>>
    /\ \A i \in Buckets : table[i] = NULL

(***************************************************************************)
(* C19. A load that throws at unit k of its input, after the source was    *)
(* opened, is not atomic: when it returns the table holds exactly the      *)
(* records of the units 1..k-1, in order, in the chains (the map) and in   *)
(* courseOrder, and nothing of an earlier load; the old content is not     *)
(* restored and the stored part is not rolled back.                        *)
(***************************************************************************)
C19_FailedLoadKeepsPrefix ==
    (out.op = "loadData" /\ out.kind = "throw"
        /\ lastLoad.status \in {"failed", "prepareFailed"}) =>
        /\ lastLoad.status = "failed" =>
              /\ lastLoad.bad >= 1
              /\ lastLoad.rest >= 0
              /\ Len(inserted) = lastLoad.bad - 1
        /\ lastLoad.status = "prepareFailed" => inserted = <<>>
        /\ StoredExactly(inserted)
        /\ variant \in {2, 3} => Cardinality(Reachable) = Len(inserted)

\* a load on a loaded table threw at its second unit: the record of its
\* first unit is stored, and a record of the load before, of another code,
\* is not
C19_Witness ==
    /\ out.op = "loadData"
    /\ out.kind = "throw"
    /\ everLoaded
    /\ lastLoad.status = "failed"
    /\ lastLoad.bad = 2
    /\ Len(inserted) = 1
    /\ variant = 2
    /\ \E n \in NodeIds \ Reachable :
          /\ heap[n].state = "live"
          /\ Canon(heap[n].course) # Canon(inserted[1])
    /\ getCourse(inserted[1].code) = Returned(inserted[1])

(***************************************************************************)
(* C20. Every error the table raises while a command of the menu runs is   *)
(* caught by main and shown as a message, and the menu loop goes on: the   *)
(* process never ends abnormally, whatever the commands and the input      *)
(* data are, rows with NULL columns in enhancement3 included.              *)
(***************************************************************************)
C20_NoAbnormalTermination ==
    /\ life \in {"running", "destroyed"}
    /\ out.kind \in {"ok", "throw"}
    /\ out.kind = "throw" => (Running /\ out.what # "")

(***************************************************************************)
(* C21. The three failures are signalled as pairwise distinct outcomes a   *)
(* caller can tell apart: a query on a table that is not loaded throws     *)
(* "No data loaded.", the lookup of an absent code on a loaded table       *)
(* throws "Course not found.", the construction of a Course with an empty  *)
(* code or title throws "Invalid Course Data: ...", and none of the three  *)
(* is ever raised for another of the three failures.                       *)
(***************************************************************************)
C21_FailuresAreDistinct ==
    /\ StateError # NotFoundError
    /\ StateError # ValidationError
    /\ NotFoundError # ValidationError
    /\ \A c \in Codes, t \in Titles, p \in PrereqLists :
          (c = <<>> \/ t = <<>>) => Course(c, t, p) = ValidationError
    /\ Running =>
          /\ \A c \in Codes :
                /\ ~dataLoaded => getCourse(c) = StateError
                /\ (dataLoaded /\ Holders(c) = {}) => getCourse(c) = NotFoundError
          /\ ~dataLoaded => getSortedCourseCodes.what = StateError.what
    /\ out.kind = "throw" =>
          /\ out.what = StateError.what =>
                (out.op \in {"getCourse", "getSortedCourseCodes"} /\ ~dataLoaded)
          /\ out.what = NotFoundError.what => (out.op = "getCourse" /\ dataLoaded)
          /\ out.what = ValidationError.what => out.op = "loadData"

\* a reload of a loaded table was refused with the validation error
C21_Witness ==
    /\ out.op = "loadData"
    /\ out.kind = "throw"
    /\ out.what = ValidationError.what
    /\ dataLoaded
    /\ \E c \in Codes : getCourse(c) = NotFoundError

\* the Node objects of the chain that starts at curr, head first
RECURSIVE ChainSeq(_, _)
ChainSeq(h, curr) ==
    IF curr = NULL THEN <<>> ELSE <<curr>> \o ChainSeq(h, h[curr].next)

\* what one call of insert changes and what it leaves alone
InsertFrame ==
    LET c     == inserted'[Len(inserted')]
        index == hash(Canon(c))
        old   == ChainSeq(heap, table[index])
        new   == ChainSeq(heap', table'[index])
    IN  /\ inserted' = Append(inserted, c)
        /\ courseOrder' = Append(courseOrder, Canon(c))
        /\ Len(new) = Len(old) + 1
        /\ SubSeq(new, 1, Len(old)) = old
        /\ new[Len(new)] \notin Reachable
        /\ heap'[new[Len(new)]].course = c
        /\ ChainCourses(heap', table'[index]) = Append(ChainCourses(heap, table[index]), c)
        /\ \A n \in Reachable : heap'[n].course = heap[n].course
        /\ \A i \in Buckets \ {index} :
              /\ table'[i] = table[i]
              /\ ChainSeq(heap', table'[i]) = ChainSeq(heap, table[i])
        /\ dataLoaded' = dataLoaded

(***************************************************************************)
(* C22. insert adds exactly one entry at the tail of the chain of bucket   *)
(* hash(upper(code)) and one key at the end of courseOrder; the entries    *)
(* that were in the chains stay, with their Course objects and in their    *)
(* order, every other bucket and dataLoaded stay as they were; nothing is  *)
(* overwritten or removed.                                                 *)
(***************************************************************************)
C22_InsertAppendsOnly == [][out'.op = "insert" => InsertFrame]_vars

\* a Course was inserted behind one of the same canonical code
C22_Witness ==
    /\ out.op = "insert"
    /\ Len(inserted) >= 2
    /\ \E i \in Buckets :
          LET cs == ChainCourses(heap, table[i])
          IN  /\ Len(cs) >= 2
              /\ cs[Len(cs)] = inserted[Len(inserted)]
              /\ Canon(cs[1]) = Canon(cs[Len(cs)])

\* following next from curr reaches the end of the chain in at most fuel steps
RECURSIVE EndsWithin(_, _, _)
EndsWithin(h, curr, fuel) ==
    IF curr = NULL THEN TRUE
    ELSE IF fuel = 0 THEN FALSE
    ELSE EndsWithin(h, h[curr].next, fuel - 1)

\* the Node objects the table leads to whose Course has the canonical code key
NodesOf(key) == {n \in Reachable : Canon(heap[n].course) = key}

(***************************************************************************)
(* C23. Every entry in the chain of bucket i has hash(upper(code)) = i;    *)
(* every chain is finite and acyclic, and no Node is in two chains; so the *)
(* scan of the single bucket hash(upper(code)) that a lookup makes ends    *)
(* and meets every entry of that canonical code in the table.              *)
(***************************************************************************)
C23_ChainsAreWellFormed ==
    (Running /\ variant \in {2, 3}) =>
        /\ \A i \in Buckets : EndsWithin(heap, table[i], Cardinality(NodeIds))
        /\ \A i \in Buckets :
              /\ Cardinality(ChainNodes(heap, table[i])) = Len(ChainSeq(heap, table[i]))
              /\ \A n \in ChainNodes(heap, table[i]) : hash(Canon(heap[n].course)) = i
        /\ \A i, j \in Buckets :
              i # j => ChainNodes(heap, table[i]) \cap ChainNodes(heap, table[j]) = {}
        /\ \A c \in Codes :
              LET key == toUpper(c)
              IN  /\ NodesOf(key) \subseteq ChainNodes(heap, table[hash(key)])
                  /\ NodesOf(key) # {} <=>
                        findInChain(heap, table[hash(key)], key).kind = "ok"

\* a chain of two entries, one of them stored under a lower-case code
C23_Witness ==
    /\ Running
    /\ variant \in {2, 3}
    /\ \E i \in Buckets :
          /\ Len(ChainSeq(heap, table[i])) >= 2
          /\ \E n \in ChainNodes(heap, table[i]) :
                /\ heap[n].course.code # Canon(heap[n].course)
                /\ findInChain(heap, table[i], Canon(heap[n].course)).kind = "ok"

(***************************************************************************)
(* C24. In the CSV variants (enhancement1, enhancement2) a loadData whose  *)
(* file cannot be opened throws before it touches the table: the map, the  *)
(* buckets, the Nodes, courseOrder and dataLoaded are as before, and every *)
(* lookup and the listing answer as they did before the call.              *)
(***************************************************************************)
C24_OpenFailureTouchesNothing ==
    [][(variant \in {1, 2} /\ out'.op = "loadData"
            /\ out'.what = "Could not open file: ") =>
          /\ out'.kind = "throw"
          /\ UNCHANGED <<courseMap, table, heap, courseOrder, dataLoaded>>
          /\ \A c \in Codes : getCourse(c)' = getCourse(c)
          /\ getSortedCourseCodes' = getSortedCourseCodes]_vars

\* a loaded table still answers after a load that could not open its file
C24_Witness ==
    /\ variant \in {1, 2}
    /\ out.op = "loadData"
    /\ out.what = "Could not open file: "
    /\ lastLoad.status = "openFailed"
    /\ dataLoaded
    /\ inserted # <<>>
    /\ getCourse(inserted[1].code).kind = "ok"

(***************************************************************************)
(* C25. In enhancement3 every exit path of loadData (normal return, open   *)
(* failure, prepare failure, validation failure while the rows are         *)
(* stepped) has closed every connection it opened and finalized every      *)
(* statement it prepared: no connection and no statement is open between   *)
(* two menu commands.                                                      *)
(***************************************************************************)
C25_HandlesReleased ==
    (variant = 3 /\ Running) => (sqlite.db = 0 /\ sqlite.stmt = 0)

\* the fields of a line: the text between its commas, split character by
\* character; an empty line has no field
RECURSIVE SplitAcc(_, _)
SplitAcc(s, cur) ==
    IF s = <<>> THEN <<cur>>
    ELSE IF Head(s) = Comma THEN <<cur>> \o SplitAcc(Tail(s), <<>>)
    ELSE SplitAcc(Tail(s), Append(cur, Head(s)))

Fields(line) == IF line = <<>> THEN <<>> ELSE SplitAcc(line, <<>>)

NonEmpty(f) == f # <<>>

\* the first two fields are present and not empty
Accepted(line) ==
    LET F == Fields(line)
    IN  Len(F) >= 2 /\ F[1] # <<>> /\ F[2] # <<>>

\* a well-formed line: "A,B"
GoodLine == <<65, Comma, 66>>

(***************************************************************************)
(* C26. parseCourse accepts a line if and only if its first two            *)
(* comma-separated fields are both present and not empty; the Course of an *)
(* accepted line has these two as code and title and the remaining fields, *)
(* in order and without the empty ones, as prerequisites; every other line *)
(* throws, and the throw ends the load at that line in both CSV variants.  *)
(***************************************************************************)
C26_ParseAcceptsTwoFields ==
    (call.fn = "parseCourse" /\ call.done) =>
        LET line == call.args[1]
            F    == Fields(line)
            r    == call.result
            l1   == loadLoop1(ConstructedMapped, <<GoodLine, line, GoodLine>>, 0)
            l2   == loadLoop2(ConstructedChained, <<GoodLine, line, GoodLine>>, 0)
        IN  /\ r.kind \in {"ok", "throw"}
            /\ r.kind = "ok" <=> Accepted(line)
            /\ r.kind = "ok" =>
                  /\ r.course = [code          |-> F[1],
                                 title         |-> F[2],
                                 prerequisites |-> SelectSeq(SubSeq(F, 3, Len(F)), NonEmpty)]
                  /\ ~l1.exc.thrown
                  /\ ~l2.exc.thrown
            /\ r.kind = "throw" =>
                  /\ l1.exc = Throw(r.what, 2)
                  /\ l2.exc = Throw(r.what, 2)
                  /\ l1.st.courseOrder = <<<<65>>>>
                  /\ l2.st.courseOrder = <<<<65>>>>

\* an accepted line with an empty prerequisite field in front of a filled one
C26_Witness ==
    /\ call.fn = "parseCourse"
    /\ call.done
    /\ call.result.kind = "ok"
    /\ Len(Fields(call.args[1])) = 4
    /\ Fields(call.args[1])[3] = <<>>
    /\ Len(call.result.course.prerequisites) = 1

(***************************************************************************)
(* C27. main returns if and only if a line exactly equal to "9" is read at *)
(* the menu prompt: whenever main has returned, the getline of its last    *)
(* iteration extracted the line "9" at the menu prompt, and whenever that  *)
(* getline extracted "9", main has returned.                               *)
(***************************************************************************)
C27_ReturnsOnlyOnNineAtMenu ==
    life = "destroyed" <=> (console.menu = "line" /\ console.command = <<57>>)

====
